---- MODULE Spec2Model ----
(***************************************************************************)
(* The segment editing-time tracker of UniOr-PET (src/time_tracker.py):    *)
(* TimeTracker holds one EditingSession per segment id and a timer mode,   *)
(* reads the wall clock (datetime.now()) in every operation and the        *)
(* idle_timer_enabled flag of the Streamlit session state.                 *)
(* Times are whole seconds; a timedelta's total_seconds() is a difference  *)
(* of two clock values.                                                    *)
(***************************************************************************)
EXTENDS Integers, Sequences, FiniteSets, TLC

VARIABLES
    tracker,             \* the TimeTracker: [sessions, timer_mode]
    now,                 \* the value datetime.now() returns
    idle_timer_enabled,  \* st.session_state['idle_timer_enabled']
    pet_started,         \* history (SpecFixed): ids whose session had start_pet_timer called
    skews,               \* history: how often the clock was set back
    current_segment,     \* st.session_state.current_segment
    active_segment,      \* st.session_state.active_segment
    session_timer_mode   \* st.session_state.timer_mode

vars == <<tracker, now, idle_timer_enabled, pet_started, skews,
          current_segment, active_segment, session_timer_mode>>

\* the part of the state that belongs to the page, not to the tracker
page == <<current_segment, active_segment, session_timer_mode>>

----------------------------------------------------------------------------
(* Bounds of the model *)

\* the clock runs from 0 to MaxTime
MaxTime == 45
\* the clock is set back at most this often (SpecSkew only)
MaxSkews == 1

\* the latest clock value at which a call after the last step is looked at
Horizon == 2 * MaxTime

\* the project's segments are 0 .. LastSegment
LastSegment == 2

\* the clock advances by one of these amounts between two calls
Steps == {15, 30}
\* the segment ids the caller uses (one of them has two decimal digits)
SegmentIds == {1, 12}

----------------------------------------------------------------------------
(* Program constants *)

IDLE_THRESHOLD == 30

\* pause_time = None
None == -1

TimerModes == {"current", "pet"}

----------------------------------------------------------------------------
(* EditingSession *)

\* the dataclass constructor as start_segment calls it: the other fields
\* take their defaults
EditingSession(start_time, last_activity, is_pet_paused, is_paused) ==
    [start_time        |-> start_time,
     pause_time        |-> None,
     total_paused_time |-> 0,
     is_paused         |-> is_paused,
     last_activity     |-> last_activity,
     active_time       |-> 0,
     idle_time         |-> 0,
     is_pet_paused     |-> is_pet_paused]

\* TimeTracker()
NewTracker == [sessions |-> <<>>, timer_mode |-> "current"]

HasSession(trk, segment_id) == segment_id \in DOMAIN trk.sessions

set_timer_mode(trk, mode) == [trk EXCEPT !.timer_mode = mode]

----------------------------------------------------------------------------
(* TimeTracker operations: each maps the tracker before the call, the      *)
(* clock value the call reads and the idle flag to the tracker after it.   *)

\* start_segment that leaves an existing session as it is in every mode
start_segment_no_repause(trk, segment_id, current_time) ==
    IF ~HasSession(trk, segment_id)
    THEN LET is_pet_paused == (trk.timer_mode = "pet") IN
         [trk EXCEPT !.sessions =
             (segment_id :> EditingSession(current_time, current_time,
                                           is_pet_paused, is_pet_paused))
             @@ trk.sessions]
    ELSE trk

\* start_segment that sets only is_pet_paused on a new manual-mode session
start_segment_new_running(trk, segment_id, current_time) ==
    IF ~HasSession(trk, segment_id)
    THEN LET is_pet_paused == (trk.timer_mode = "pet") IN
         [trk EXCEPT !.sessions =
             (segment_id :> EditingSession(current_time, current_time,
                                           is_pet_paused, FALSE))
             @@ trk.sessions]
    ELSE IF trk.timer_mode = "pet" /\ ~trk.sessions[segment_id].is_pet_paused
         THEN [trk EXCEPT !.sessions[segment_id] =
                 [@ EXCEPT !.is_pet_paused = TRUE,
                           !.is_paused = TRUE,
                           !.pause_time = current_time]]
         ELSE trk

\* start_segment that creates the session anew when it exists already
start_segment_restarting(trk, segment_id, current_time) ==
    LET is_pet_paused == (trk.timer_mode = "pet") IN
    [trk EXCEPT !.sessions =
        (segment_id :> EditingSession(current_time, current_time,
                                      is_pet_paused, is_pet_paused))
        @@ trk.sessions]

start_segment(trk, segment_id, current_time) ==
    IF ~HasSession(trk, segment_id)
    THEN LET is_pet_paused == (trk.timer_mode = "pet") IN
         [trk EXCEPT !.sessions =
             (segment_id :> EditingSession(current_time, current_time,
                                           is_pet_paused, is_pet_paused))
             @@ trk.sessions]
    ELSE IF trk.timer_mode = "pet" /\ ~trk.sessions[segment_id].is_pet_paused
         THEN [trk EXCEPT !.sessions[segment_id] =
                 [@ EXCEPT !.is_pet_paused = TRUE,
                           !.is_paused = TRUE,
                           !.pause_time = current_time]]
         ELSE trk

\* pause_segment without its `not is_paused` guard
pause_segment_unguarded(trk, segment_id, current_time, idle_enabled) ==
    IF HasSession(trk, segment_id)
    THEN LET session == trk.sessions[segment_id]
             time_since_last == current_time - session.last_activity
         IN [trk EXCEPT !.sessions[segment_id] =
               [@ EXCEPT !.active_time =
                            IF time_since_last <= IDLE_THRESHOLD \/ ~idle_enabled
                            THEN @ + time_since_last ELSE @,
                         !.pause_time = current_time,
                         !.is_paused = TRUE,
                         !.last_activity = current_time]]
    ELSE trk

\* pause_segment that credits a gap only below the threshold (< for <=)
pause_segment_lt(trk, segment_id, current_time, idle_enabled) ==
    IF HasSession(trk, segment_id) /\ ~trk.sessions[segment_id].is_paused
    THEN LET session == trk.sessions[segment_id]
             time_since_last == current_time - session.last_activity
         IN [trk EXCEPT !.sessions[segment_id] =
               [@ EXCEPT !.active_time =
                            IF time_since_last < IDLE_THRESHOLD \/ ~idle_enabled
                            THEN @ + time_since_last ELSE @,
                         !.pause_time = current_time,
                         !.is_paused = TRUE,
                         !.last_activity = current_time]]
    ELSE trk

pause_segment(trk, segment_id, current_time, idle_enabled) ==
    IF HasSession(trk, segment_id) /\ ~trk.sessions[segment_id].is_paused
    THEN LET session == trk.sessions[segment_id]
             time_since_last == current_time - session.last_activity
         IN [trk EXCEPT !.sessions[segment_id] =
               [@ EXCEPT !.active_time =
                            IF time_since_last <= IDLE_THRESHOLD \/ ~idle_enabled
                            THEN @ + time_since_last ELSE @,
                         !.pause_time = current_time,
                         !.is_paused = TRUE,
                         !.last_activity = current_time]]
    ELSE trk

\* resume_segment without the manual-mode gate
resume_segment_ungated(trk, segment_id, current_time) ==
    IF HasSession(trk, segment_id) /\ trk.sessions[segment_id].is_paused
    THEN LET session == trk.sessions[segment_id] IN
         [trk EXCEPT !.sessions[segment_id] =
            [@ EXCEPT !.total_paused_time =
                         IF session.pause_time # None
                         THEN @ + (current_time - session.pause_time)
                         ELSE @,
                      !.is_paused = FALSE,
                      !.pause_time = None,
                      !.last_activity = current_time]]
    ELSE trk

\* resume_segment with the pause duration's operands swapped
resume_segment_swapped(trk, segment_id, current_time) ==
    IF HasSession(trk, segment_id) /\ trk.sessions[segment_id].is_paused
    THEN LET session == trk.sessions[segment_id] IN
         IF trk.timer_mode # "pet" \/ ~session.is_pet_paused
         THEN [trk EXCEPT !.sessions[segment_id] =
                 [@ EXCEPT !.total_paused_time =
                              IF session.pause_time # None
                              THEN @ + (session.pause_time - current_time)
                              ELSE @,
                           !.is_paused = FALSE,
                           !.pause_time = None,
                           !.last_activity = current_time]]
         ELSE trk
    ELSE trk

\* resume_segment that leaves last_activity as it was
resume_segment_no_stamp(trk, segment_id, current_time) ==
    IF HasSession(trk, segment_id) /\ trk.sessions[segment_id].is_paused
    THEN LET session == trk.sessions[segment_id] IN
         IF trk.timer_mode # "pet" \/ ~session.is_pet_paused
         THEN [trk EXCEPT !.sessions[segment_id] =
                 [@ EXCEPT !.total_paused_time =
                              IF session.pause_time # None
                              THEN @ + (current_time - session.pause_time)
                              ELSE @,
                           !.is_paused = FALSE,
                           !.pause_time = None]]
         ELSE trk
    ELSE trk

\* resume_segment that tests is_pet_paused in every mode
resume_segment_any_mode(trk, segment_id, current_time) ==
    IF HasSession(trk, segment_id) /\ trk.sessions[segment_id].is_paused
    THEN LET session == trk.sessions[segment_id] IN
         IF ~session.is_pet_paused
         THEN [trk EXCEPT !.sessions[segment_id] =
                 [@ EXCEPT !.total_paused_time =
                              IF session.pause_time # None
                              THEN @ + (current_time - session.pause_time)
                              ELSE @,
                           !.is_paused = FALSE,
                           !.pause_time = None,
                           !.last_activity = current_time]]
         ELSE trk
    ELSE trk

\* resume_segment that leaves pause_time as it was
resume_segment_keeps_pause_time(trk, segment_id, current_time) ==
    IF HasSession(trk, segment_id) /\ trk.sessions[segment_id].is_paused
    THEN LET session == trk.sessions[segment_id] IN
         IF trk.timer_mode # "pet" \/ ~session.is_pet_paused
         THEN [trk EXCEPT !.sessions[segment_id] =
                 [@ EXCEPT !.total_paused_time =
                              IF session.pause_time # None
                              THEN @ + (current_time - session.pause_time)
                              ELSE @,
                           !.is_paused = FALSE,
                           !.last_activity = current_time]]
         ELSE trk
    ELSE trk

resume_segment(trk, segment_id, current_time) ==
    IF HasSession(trk, segment_id) /\ trk.sessions[segment_id].is_paused
    THEN LET session == trk.sessions[segment_id] IN
         IF trk.timer_mode # "pet" \/ ~session.is_pet_paused
         THEN [trk EXCEPT !.sessions[segment_id] =
                 [@ EXCEPT !.total_paused_time =
                              IF session.pause_time # None
                              THEN @ + (current_time - session.pause_time)
                              ELSE @,
                           !.is_paused = FALSE,
                           !.pause_time = None,
                           !.last_activity = current_time]]
         ELSE trk
    ELSE trk

\* update_activity that leaves last_activity as it was
update_activity_no_stamp(trk, segment_id, current_time, idle_enabled) ==
    IF HasSession(trk, segment_id)
    THEN LET session == trk.sessions[segment_id]
             time_since_last == current_time - session.last_activity
         IN [trk EXCEPT !.sessions[segment_id] =
               [@ EXCEPT !.idle_time =
                            IF ~session.is_paused /\ idle_enabled
                               /\ time_since_last > IDLE_THRESHOLD
                            THEN @ + (time_since_last - IDLE_THRESHOLD) ELSE @,
                         !.active_time =
                            IF ~session.is_paused
                               /\ (~idle_enabled \/ time_since_last <= IDLE_THRESHOLD)
                            THEN @ + time_since_last ELSE @]]
    ELSE trk

\* update_activity that takes a gap of exactly the threshold as idle
update_activity_ge(trk, segment_id, current_time, idle_enabled) ==
    IF HasSession(trk, segment_id)
    THEN LET session == trk.sessions[segment_id]
             time_since_last == current_time - session.last_activity
         IN [trk EXCEPT !.sessions[segment_id] =
               [@ EXCEPT !.idle_time =
                            IF ~session.is_paused /\ idle_enabled
                               /\ time_since_last >= IDLE_THRESHOLD
                            THEN @ + (time_since_last - IDLE_THRESHOLD) ELSE @,
                         !.active_time =
                            IF ~session.is_paused
                               /\ (~idle_enabled \/ time_since_last < IDLE_THRESHOLD)
                            THEN @ + time_since_last ELSE @,
                         !.last_activity = current_time]]
    ELSE trk

\* update_activity that creates the session of an unknown id
update_activity_creating(trk, segment_id, current_time, idle_enabled) ==
    IF HasSession(trk, segment_id)
    THEN LET session == trk.sessions[segment_id]
             time_since_last == current_time - session.last_activity
         IN [trk EXCEPT !.sessions[segment_id] =
               [@ EXCEPT !.idle_time =
                            IF ~session.is_paused /\ idle_enabled
                               /\ time_since_last > IDLE_THRESHOLD
                            THEN @ + (time_since_last - IDLE_THRESHOLD) ELSE @,
                         !.active_time =
                            IF ~session.is_paused
                               /\ (~idle_enabled \/ time_since_last <= IDLE_THRESHOLD)
                            THEN @ + time_since_last ELSE @,
                         !.last_activity = current_time]]
    ELSE [trk EXCEPT !.sessions =
             (segment_id :> EditingSession(current_time, current_time, FALSE, FALSE))
             @@ trk.sessions]

\* update_activity that splits a gap beyond the threshold between the two
\* buckets
update_activity_split(trk, segment_id, current_time, idle_enabled) ==
    IF HasSession(trk, segment_id)
    THEN LET session == trk.sessions[segment_id]
             time_since_last == current_time - session.last_activity
             beyond == ~session.is_paused /\ idle_enabled
                          /\ time_since_last > IDLE_THRESHOLD
         IN [trk EXCEPT !.sessions[segment_id] =
               [@ EXCEPT !.idle_time =
                            IF beyond
                            THEN @ + (time_since_last - IDLE_THRESHOLD) ELSE @,
                         !.active_time =
                            IF session.is_paused THEN @
                            ELSE IF beyond THEN @ + IDLE_THRESHOLD
                            ELSE @ + time_since_last,
                         !.last_activity = current_time]]
    ELSE trk

\* update_activity that stamps last_activity on every session
update_activity_stamping_all(trk, segment_id, current_time, idle_enabled) ==
    IF HasSession(trk, segment_id)
    THEN LET session == trk.sessions[segment_id]
             time_since_last == current_time - session.last_activity
         IN [trk EXCEPT !.sessions =
               [i \in DOMAIN trk.sessions |->
                  IF i = segment_id
                  THEN [session EXCEPT
                          !.idle_time =
                             IF ~session.is_paused /\ idle_enabled
                                /\ time_since_last > IDLE_THRESHOLD
                             THEN @ + (time_since_last - IDLE_THRESHOLD) ELSE @,
                          !.active_time =
                             IF ~session.is_paused
                                /\ (~idle_enabled \/ time_since_last <= IDLE_THRESHOLD)
                             THEN @ + time_since_last ELSE @,
                          !.last_activity = current_time]
                  ELSE [trk.sessions[i] EXCEPT !.last_activity = current_time]]]
    ELSE trk

update_activity(trk, segment_id, current_time, idle_enabled) ==
    IF HasSession(trk, segment_id)
    THEN LET session == trk.sessions[segment_id]
             time_since_last == current_time - session.last_activity
         IN [trk EXCEPT !.sessions[segment_id] =
               [@ EXCEPT !.idle_time =
                            IF ~session.is_paused /\ idle_enabled
                               /\ time_since_last > IDLE_THRESHOLD
                            THEN @ + (time_since_last - IDLE_THRESHOLD) ELSE @,
                         !.active_time =
                            IF ~session.is_paused
                               /\ (~idle_enabled \/ time_since_last <= IDLE_THRESHOLD)
                            THEN @ + time_since_last ELSE @,
                         !.last_activity = current_time]]
    ELSE trk

\* get_editing_time that counts a gap beyond the threshold up to the threshold
get_editing_time_capped(trk, segment_id, current_time, idle_enabled) ==
    IF ~HasSession(trk, segment_id)
    THEN 0
    ELSE LET session == trk.sessions[segment_id]
             time_since_last == current_time - session.last_activity
         IN IF session.is_paused
            THEN session.active_time
            ELSE IF time_since_last <= IDLE_THRESHOLD \/ ~idle_enabled
                 THEN session.active_time + time_since_last
                 ELSE session.active_time + IDLE_THRESHOLD

get_editing_time(trk, segment_id, current_time, idle_enabled) ==
    IF ~HasSession(trk, segment_id)
    THEN 0
    ELSE LET session == trk.sessions[segment_id]
             time_since_last == current_time - session.last_activity
         IN IF ~session.is_paused
               /\ (time_since_last <= IDLE_THRESHOLD \/ ~idle_enabled)
            THEN session.active_time + time_since_last
            ELSE session.active_time

\* get_editing_time that commits the live gap it reads, as update_activity does
get_editing_time_committing(trk, segment_id, current_time, idle_enabled) ==
    IF HasSession(trk, segment_id) /\ ~trk.sessions[segment_id].is_paused
    THEN LET session == trk.sessions[segment_id]
             time_since_last == current_time - session.last_activity
         IN IF time_since_last <= IDLE_THRESHOLD \/ ~idle_enabled
            THEN [trk EXCEPT !.sessions[segment_id] =
                    [@ EXCEPT !.active_time = @ + time_since_last,
                              !.last_activity = current_time]]
            ELSE trk
    ELSE trk

\* the tracker after get_editing_time: the method assigns to nothing
get_editing_time_after(trk, segment_id, current_time, idle_enabled) == trk

\* check_idle_time without the early return for a disabled idle timer
check_idle_time_unguarded(trk, segment_id, current_time, idle_enabled) ==
    IF HasSession(trk, segment_id) /\ ~trk.sessions[segment_id].is_paused
    THEN LET session == trk.sessions[segment_id]
             time_since_last == current_time - session.last_activity
             new_idle == time_since_last - IDLE_THRESHOLD
         IN IF time_since_last > IDLE_THRESHOLD /\ new_idle > session.idle_time
            THEN [trk EXCEPT !.sessions[segment_id].idle_time = new_idle]
            ELSE trk
    ELSE trk

check_idle_time(trk, segment_id, current_time, idle_enabled) ==
    IF ~idle_enabled
    THEN trk
    ELSE IF HasSession(trk, segment_id) /\ ~trk.sessions[segment_id].is_paused
         THEN LET session == trk.sessions[segment_id]
                  time_since_last == current_time - session.last_activity
                  new_idle == time_since_last - IDLE_THRESHOLD
              IN IF time_since_last > IDLE_THRESHOLD /\ new_idle > session.idle_time
                 THEN [trk EXCEPT !.sessions[segment_id].idle_time = new_idle]
                 ELSE trk
         ELSE trk

\* pause_pet_timer without the test of the mode
pause_pet_timer_any_mode(trk, segment_id, current_time, idle_enabled) ==
    IF HasSession(trk, segment_id)
    THEN pause_segment([trk EXCEPT !.sessions[segment_id].is_pet_paused = TRUE],
                       segment_id, current_time, idle_enabled)
    ELSE trk

\* pause_pet_timer that sets the flag and does not call pause_segment
pause_pet_timer_flag_only(trk, segment_id, current_time, idle_enabled) ==
    IF HasSession(trk, segment_id) /\ trk.timer_mode = "pet"
    THEN [trk EXCEPT !.sessions[segment_id].is_pet_paused = TRUE]
    ELSE trk

pause_pet_timer(trk, segment_id, current_time, idle_enabled) ==
    IF HasSession(trk, segment_id) /\ trk.timer_mode = "pet"
    THEN pause_segment([trk EXCEPT !.sessions[segment_id].is_pet_paused = TRUE],
                       segment_id, current_time, idle_enabled)
    ELSE trk

\* start_pet_timer that does not clear is_pet_paused before resuming
start_pet_timer_keeps_flag(trk, segment_id, current_time) ==
    IF HasSession(trk, segment_id) /\ trk.timer_mode = "pet"
    THEN resume_segment(trk, segment_id, current_time)
    ELSE trk

start_pet_timer(trk, segment_id, current_time) ==
    IF HasSession(trk, segment_id) /\ trk.timer_mode = "pet"
    THEN resume_segment([trk EXCEPT !.sessions[segment_id].is_pet_paused = FALSE],
                        segment_id, current_time)
    ELSE trk

\* the tracker after is_pet_timer_paused: the method assigns to nothing
is_pet_timer_paused_after(trk, segment_id) == trk

is_pet_timer_paused(trk, segment_id) ==
    HasSession(trk, segment_id) /\ trk.sessions[segment_id].is_pet_paused

----------------------------------------------------------------------------
(* Serialization.  A dict is a function from its keys; str(k) is the       *)
(* decimal numeral of k, a sequence of digits, and int(s) parses one.      *)

RECURSIVE str(_)
str(k) == IF k < 10 THEN <<k>> ELSE Append(str(k \div 10), k % 10)

RECURSIVE int(_)
int(s) == IF Len(s) = 1 THEN s[1]
          ELSE 10 * int(SubSeq(s, 1, Len(s) - 1)) + s[Len(s)]

\* what a raised KeyError leaves in place of a result
KeyError == [error |-> "KeyError"]

\* timer_mode = None (the default of from_dict's parameter)
NoMode == "None"

\* EditingSession.to_dict that leaves out is_pet_paused
EditingSession_to_dict_no_pet_flag(session) ==
    [k \in {"start_time", "pause_time", "total_paused_time", "is_paused",
            "last_activity", "active_time", "idle_time"}
       |-> session[k]]

EditingSession_to_dict(session) ==
    [k \in {"start_time", "pause_time", "total_paused_time", "is_paused",
            "last_activity", "active_time", "idle_time", "is_pet_paused"}
       |-> session[k]]

\* data['start_time'], data['pause_time'], data['total_paused_time'] and
\* data['is_paused'] raise KeyError when the key is missing
EditingSession_from_dict_raises(data) ==
    {"start_time", "pause_time", "total_paused_time", "is_paused"}
        \ DOMAIN data # {}

\* data.get(key, default)
Get(data, key, default) == IF key \in DOMAIN data THEN data[key] ELSE default

\* EditingSession.from_dict that does not read active_time
EditingSession_from_dict_no_active(data, current_time) ==
    [start_time        |-> data["start_time"],
     pause_time        |-> data["pause_time"],
     total_paused_time |-> data["total_paused_time"],
     is_paused         |-> data["is_paused"],
     last_activity     |-> Get(data, "last_activity", current_time),
     active_time       |-> 0,
     idle_time         |-> Get(data, "idle_time", 0),
     is_pet_paused     |-> Get(data, "is_pet_paused", FALSE)]

EditingSession_from_dict(data, current_time) ==
    [start_time        |-> data["start_time"],
     pause_time        |-> data["pause_time"],
     total_paused_time |-> data["total_paused_time"],
     is_paused         |-> data["is_paused"],
     last_activity     |-> Get(data, "last_activity", current_time),
     active_time       |-> Get(data, "active_time", 0),
     idle_time         |-> Get(data, "idle_time", 0),
     is_pet_paused     |-> Get(data, "is_pet_paused", FALSE)]

\* to_dict that leaves out the sessions that are paused
to_dict_running_only(trk) ==
    [sessions |-> [s \in {str(k) : k \in {j \in DOMAIN trk.sessions :
                                             ~trk.sessions[j].is_paused}} |->
                     EditingSession_to_dict(
                        trk.sessions[CHOOSE k \in DOMAIN trk.sessions : str(k) = s])]]

to_dict(trk) ==
    [sessions |-> [s \in {str(k) : k \in DOMAIN trk.sessions} |->
                     EditingSession_to_dict(
                        trk.sessions[CHOOSE k \in DOMAIN trk.sessions : str(k) = s])]]

\* the tracker after to_dict: the dicts are built anew and the tracker and
\* its sessions are assigned nothing
to_dict_after(trk) == trk

from_dict(data, timer_mode, current_time) ==
    LET created == IF timer_mode # NoMode
                   THEN set_timer_mode(NewTracker, timer_mode)
                   ELSE NewTracker
    IN IF "sessions" \in DOMAIN data
       THEN IF \E s \in DOMAIN data.sessions :
                   EditingSession_from_dict_raises(data.sessions[s])
            THEN KeyError
            ELSE [created EXCEPT !.sessions =
                    [i \in {int(s) : s \in DOMAIN data.sessions} |->
                       EditingSession_from_dict(
                          data.sessions[CHOOSE s \in DOMAIN data.sessions : int(s) = i],
                          current_time)]]
       ELSE created

----------------------------------------------------------------------------
(* The state machine: the application calls the tracker, one call at a     *)
(* time, and the wall clock advances between calls.                        *)

Init ==
    /\ tracker = NewTracker
    /\ now = 0
    /\ idle_timer_enabled = TRUE
    /\ pet_started = {}
    /\ skews = 0
    /\ current_segment = 0
    /\ active_segment = None
    /\ session_timer_mode = NoMode

\* the wall clock advances
Tick ==
    /\ \E d \in Steps : now + d <= MaxTime /\ now' = now + d
    /\ UNCHANGED <<tracker, idle_timer_enabled, pet_started, skews, page>>

\* the wall clock is set back (clock skew)
ClockBack ==
    /\ skews < MaxSkews
    /\ \E d \in Steps : now - d >= 0 /\ now' = now - d
    /\ skews' = skews + 1
    /\ UNCHANGED <<tracker, idle_timer_enabled, pet_started, page>>

\* the idle-timer toggle of the sidebar
SetIdleTimer ==
    /\ idle_timer_enabled' = ~idle_timer_enabled
    /\ UNCHANGED <<tracker, now, pet_started, skews, page>>

\* the idle-timer toggle used before the first session exists
SetIdleTimerBeforeUse ==
    /\ DOMAIN tracker.sessions = {}
    /\ idle_timer_enabled' = ~idle_timer_enabled
    /\ UNCHANGED <<tracker, now, pet_started, skews, page>>

\* a call of the tracker: it reads the clock and leaves it alone
Call(trk) ==
    /\ tracker' = trk
    /\ UNCHANGED <<now, idle_timer_enabled, skews, page>>

SetTimerMode ==
    /\ \E mode \in TimerModes :
          Call(set_timer_mode(tracker, mode))
    /\ UNCHANGED pet_started

\* set_timer_mode before the first session exists
SetTimerModeBeforeUse ==
    /\ DOMAIN tracker.sessions = {}
    /\ \E mode \in TimerModes :
          Call(set_timer_mode(tracker, mode))
    /\ UNCHANGED pet_started

StartSegment ==
    /\ \E id \in SegmentIds :
          Call(start_segment(tracker, id, now))
    /\ UNCHANGED pet_started

PauseSegment ==
    /\ \E id \in SegmentIds :
          Call(pause_segment(tracker, id, now, idle_timer_enabled))
    /\ UNCHANGED pet_started

ResumeSegment ==
    /\ \E id \in SegmentIds :
          Call(resume_segment(tracker, id, now))
    /\ UNCHANGED pet_started

UpdateActivity ==
    /\ \E id \in SegmentIds :
          Call(update_activity(tracker, id, now, idle_timer_enabled))
    /\ UNCHANGED pet_started

CheckIdleTime ==
    /\ \E id \in SegmentIds :
          Call(check_idle_time(tracker, id, now, idle_timer_enabled))
    /\ UNCHANGED pet_started

PausePetTimer ==
    /\ \E id \in SegmentIds :
          Call(pause_pet_timer(tracker, id, now, idle_timer_enabled))
    /\ UNCHANGED pet_started

StartPetTimer ==
    /\ \E id \in SegmentIds :
          Call(start_pet_timer(tracker, id, now))
    /\ UNCHANGED pet_started

\* start_pet_timer with the history of the sessions it was called for
StartPetTimerRecorded ==
    \E id \in SegmentIds :
       /\ Call(start_pet_timer(tracker, id, now))
       /\ pet_started' = IF HasSession(tracker, id)
                         THEN pet_started \cup {id} ELSE pet_started

\* the progress is saved and loaded again: the tracker is replaced by
\* from_dict of its own to_dict, with the stored mode
Reload ==
    /\ Call(from_dict(to_dict(tracker), tracker.timer_mode, now))
    /\ UNCHANGED pet_started

SegmentCalls ==
    \/ StartSegment
    \/ PauseSegment
    \/ ResumeSegment
    \/ UpdateActivity
    \/ PausePetTimer
    \/ StartPetTimer

\* every call, the mode changed at any time, a clock that never goes back
Next ==
    \/ Tick
    \/ SetIdleTimer
    \/ SetTimerMode
    \/ SegmentCalls
    \/ CheckIdleTime
    \/ Reload

Spec == Init /\ [][Next]_vars

\* the mode is set before the first use and fixed from then on; no
\* periodic idle check; the calls of start_pet_timer are recorded
NextFixed ==
    \/ Tick
    \/ SetIdleTimer
    \/ SetTimerModeBeforeUse
    \/ StartSegment
    \/ PauseSegment
    \/ ResumeSegment
    \/ UpdateActivity
    \/ PausePetTimer
    \/ StartPetTimerRecorded

SpecFixed == Init /\ [][NextFixed]_vars

\* the continuous mode's calls under a wall clock that may be set back
NextSkew ==
    \/ Tick
    \/ ClockBack
    \/ SetIdleTimer
    \/ StartSegment
    \/ PauseSegment
    \/ ResumeSegment
    \/ UpdateActivity

SpecSkew == Init /\ [][NextSkew]_vars

----------------------------------------------------------------------------
(* The editing page (src/app.py, src/auth.py): it shows the segment        *)
(* current_segment, remembers in active_segment the segment it last        *)
(* activated, and keeps its own copy of the timer mode.                    *)

\* the indices of the project's segments
Segments == 0..LastSegment

\* a step of the page: it sets the tracker and its own state
PageStep(trk, current, active) ==
    /\ tracker' = trk
    /\ current_segment' = current
    /\ active_segment' = active
    /\ UNCHANGED <<now, idle_timer_enabled, pet_started, skews, session_timer_mode>>

\* a path that chooses the timer mode: the page's mode and the tracker
ModeStep(mode, trk) ==
    /\ session_timer_mode = NoMode
    /\ session_timer_mode' = mode
    /\ tracker' = trk
    /\ UNCHANGED <<now, idle_timer_enabled, pet_started, skews,
                   current_segment, active_segment>>

\* the Start Project button after the upload of the files
StartProject ==
    \E mode \in TimerModes :
       ModeStep(mode, set_timer_mode(tracker, mode))

\* a translator with a project signs in: the page takes the project's mode
LoginWithProject ==
    \E mode \in TimerModes :
       ModeStep(mode, tracker)

\* saved progress is loaded at the start of the work: a new tracker with
\* the stored mode, then from_dict of the stored sessions (none so far)
LoadProgress ==
    \E mode \in TimerModes :
       ModeStep(mode, from_dict(to_dict(set_timer_mode(NewTracker, mode)), mode, now))

\* the page shows a segment other than the one it activated last
ActivateSegment ==
    /\ session_timer_mode # NoMode
    /\ current_segment \in Segments
    /\ current_segment # active_segment
    /\ LET paused  == IF active_segment # None
                      THEN pause_segment(tracker, active_segment, now,
                                         idle_timer_enabled)
                      ELSE tracker
           started == start_segment(paused, current_segment, now)
           resumed == IF session_timer_mode # "pet"
                         \/ ~is_pet_timer_paused(started, current_segment)
                      THEN resume_segment(started, current_segment, now)
                      ELSE started
       IN PageStep(resumed, current_segment, current_segment)

\* the buttons below the segment are there once the segment is activated
SegmentShown ==
    /\ session_timer_mode # NoMode
    /\ current_segment \in Segments
    /\ active_segment = current_segment

\* what the page does to the tracker before it leaves current_segment for
\* the segment `target`
LeaveFor(trk, target) ==
    LET paused == pause_segment(trk, current_segment, now, idle_timer_enabled)
    IN IF session_timer_mode = "pet"
       THEN pause_pet_timer(paused, target, now, idle_timer_enabled)
       ELSE paused

\* the Next button without its pause_segment
NextSegmentWithoutPause ==
    /\ SegmentShown
    /\ current_segment < LastSegment
    /\ PageStep(update_activity(tracker, current_segment, now, idle_timer_enabled),
                current_segment + 1, None)

NextSegment ==
    /\ SegmentShown
    /\ current_segment < LastSegment
    /\ PageStep(LeaveFor(update_activity(tracker, current_segment, now,
                                         idle_timer_enabled),
                         current_segment + 1),
                current_segment + 1, None)

PreviousSegment ==
    /\ SegmentShown
    /\ current_segment > 0
    /\ PageStep(LeaveFor(tracker, current_segment - 1), current_segment - 1, None)

\* the Finish button of the last segment: the index moves past the end
FinishSegments ==
    /\ SegmentShown
    /\ current_segment = LastSegment
    /\ PageStep(LeaveFor(tracker, current_segment + 1), current_segment + 1, None)

\* the segment selector, Jump to Segment, Edit this segment
SelectSegment ==
    /\ session_timer_mode # NoMode
    /\ \E target \in Segments \ {current_segment} :
          PageStep(tracker, target, active_segment)

\* the text area's on_change
EditSegment ==
    /\ SegmentShown
    /\ PageStep(update_activity(tracker, current_segment, now, idle_timer_enabled),
                current_segment, active_segment)

\* the pause button of the manual timer
PausePetTimerButton ==
    /\ SegmentShown
    /\ session_timer_mode = "pet"
    /\ ~is_pet_timer_paused(tracker, current_segment)
    /\ PageStep(pause_pet_timer(tracker, current_segment, now, idle_timer_enabled),
                current_segment, active_segment)

\* the start button of the manual timer, its minimum viewing time over
StartPetTimerButton ==
    /\ SegmentShown
    /\ session_timer_mode = "pet"
    /\ is_pet_timer_paused(tracker, current_segment)
    /\ PageStep(start_pet_timer(tracker, current_segment, now),
                current_segment, active_segment)

\* the translator leaves the page alone for longer than IDLE_THRESHOLD
Break ==
    /\ now < MaxTime
    /\ now' = MaxTime
    /\ UNCHANGED <<tracker, idle_timer_enabled, pet_started, skews, page>>

\* the page driving the tracker, the mode chosen once at the start of the
\* work on an empty tracker
NextPage ==
    \/ Break
    \/ StartProject
    \/ LoginWithProject
    \/ LoadProgress
    \/ ActivateSegment
    \/ NextSegment
    \/ PreviousSegment
    \/ FinishSegments
    \/ SelectSegment
    \/ EditSegment
    \/ PausePetTimerButton
    \/ StartPetTimerButton

SpecPage == Init /\ [][NextPage]_vars

\* the continuous mode's calls with the idle timer chosen before the first
\* session and left alone from then on, under a clock that never goes back
NextSteady ==
    \/ Tick
    \/ SetIdleTimerBeforeUse
    \/ StartSegment
    \/ PauseSegment
    \/ ResumeSegment
    \/ UpdateActivity

SpecSteady == Init /\ [][NextSteady]_vars

----------------------------------------------------------------------------
(* Helpers of the properties *)

Sessions == DOMAIN tracker.sessions

Session(id) == tracker.sessions[id]

Running(id) == id \in Sessions /\ ~Session(id).is_paused

\* the gap an operation on id computes at the current clock value
Gap(id) == now - Session(id).last_activity

\* a later clock value
Later == now..MaxTime

----------------------------------------------------------------------------
(* C1: with a non-decreasing clock and a fixed mode, every session has     *)
(* active_time + idle_time <= (now - start_time) - total_paused_time.      *)
C1_ActivePlusIdleBounded ==
    \A id \in Sessions :
       Session(id).active_time + Session(id).idle_time
          <= (now - Session(id).start_time) - Session(id).total_paused_time

\* a session that was paused for a while and has worked for a while, all
\* of its wall-clock time accounted for
C1_Witness ==
    \E id \in Sessions :
       /\ Session(id).active_time > 0
       /\ Session(id).total_paused_time > 0
       /\ Session(id).active_time + Session(id).idle_time
             = (now - Session(id).start_time) - Session(id).total_paused_time

(* C2: in manual mode, from the creation of a session until                *)
(* start_pet_timer is called on it, is_pet_timer_paused is true and        *)
(* get_editing_time stays 0, whatever the clock and the other calls do.    *)
C2_ManualGate ==
    \A id \in Sessions :
       (tracker.timer_mode = "pet" /\ id \notin pet_started) =>
          /\ is_pet_timer_paused(tracker, id)
          /\ get_editing_time(tracker, id, now, idle_timer_enabled) = 0

\* a manual-mode session never started, 30 s or more after its creation,
\* with an update_activity call after the creation
C2_Witness ==
    \E id \in Sessions :
       /\ tracker.timer_mode = "pet"
       /\ id \notin pet_started
       /\ now - Session(id).start_time >= IDLE_THRESHOLD
       /\ Session(id).last_activity > Session(id).start_time

(* C3: with the idle timer enabled, update_activity on a running session   *)
(* after a gap d > 30 adds d - 30 to idle_time and the remaining 30 to     *)
(* active_time.                                                            *)
C3_IdleGapSplit ==
    \A id \in Sessions :
       (Running(id) /\ idle_timer_enabled /\ Gap(id) > IDLE_THRESHOLD) =>
          LET after == update_activity(tracker, id, now, idle_timer_enabled).sessions[id]
          IN /\ after.idle_time = Session(id).idle_time + (Gap(id) - IDLE_THRESHOLD)
             /\ after.active_time = Session(id).active_time + IDLE_THRESHOLD

(* C4: with the idle timer enabled, update_activity on a running session   *)
(* after a gap d <= 30 (d = 30 included) adds 0 to idle_time and d to      *)
(* active_time.                                                            *)
C4_WithinThresholdAllActive ==
    \A id \in Sessions :
       (Running(id) /\ idle_timer_enabled /\ Gap(id) <= IDLE_THRESHOLD) =>
          LET after == update_activity(tracker, id, now, idle_timer_enabled).sessions[id]
          IN /\ after.idle_time = Session(id).idle_time
             /\ after.active_time = Session(id).active_time + Gap(id)

\* a running session exactly 30 s after its last activity, on which
\* update_activity credits the 30 s
C4_Witness ==
    \E id \in Sessions :
       /\ Running(id) /\ idle_timer_enabled /\ Gap(id) = IDLE_THRESHOLD
       /\ update_activity(tracker, id, now, idle_timer_enabled).sessions[id].active_time
             = Session(id).active_time + IDLE_THRESHOLD

(* C5: when the clock is earlier than a session's last_activity or         *)
(* pause_time, update_activity, pause_segment and resume_segment take the  *)
(* delta as zero: active_time, idle_time and total_paused_time do not      *)
(* decrease.                                                               *)
C5_NegativeDeltaClamped ==
    \A id \in Sessions :
       (\/ now < Session(id).last_activity
        \/ (Session(id).pause_time # None /\ now < Session(id).pause_time)) =>
          \A after \in {update_activity(tracker, id, now, idle_timer_enabled),
                        pause_segment(tracker, id, now, idle_timer_enabled),
                        resume_segment(tracker, id, now)} :
             /\ after.sessions[id].active_time >= Session(id).active_time
             /\ after.sessions[id].idle_time >= Session(id).idle_time
             /\ after.sessions[id].total_paused_time >= Session(id).total_paused_time

(* C6: with a non-decreasing clock, no operation of the tracker decreases  *)
(* a session's active_time, idle_time or total_paused_time.                *)
C6_CountersMonotone ==
    [][\A id \in Sessions :
          /\ id \in DOMAIN tracker'.sessions
          /\ tracker'.sessions[id].active_time >= Session(id).active_time
          /\ tracker'.sessions[id].idle_time >= Session(id).idle_time
          /\ tracker'.sessions[id].total_paused_time >= Session(id).total_paused_time
      ]_vars

\* one session has counted idle time, and one has counted active time and
\* paused time
C6_Witness ==
    /\ \E id \in Sessions : Session(id).idle_time > 0
    /\ \E id \in Sessions :
          Session(id).active_time > 0 /\ Session(id).total_paused_time > 0

(* C7: the tracker from_dict(to_dict(t), t.timer_mode) returns the same    *)
(* get_editing_time as t, at every clock value from now on and with the    *)
(* idle timer on or off, for every segment id of t, and 0 for every other  *)
(* id.                                                                     *)
C7_RoundTripEditingTime ==
    LET restored == from_dict(to_dict(tracker), tracker.timer_mode, now)
    IN \A id \in SegmentIds, t \in Later, idle \in BOOLEAN :
          get_editing_time(restored, id, t, idle)
             = IF id \in Sessions
               THEN get_editing_time(tracker, id, t, idle)
               ELSE 0

\* both segments have a session, the two-digit id's session is running
\* and the restored tracker reads a positive editing time for it
C7_Witness ==
    /\ Sessions = SegmentIds
    /\ \E id \in Sessions :
          /\ Len(str(id)) > 1
          /\ Running(id)
          /\ get_editing_time(from_dict(to_dict(tracker), tracker.timer_mode, now),
                              id, now, idle_timer_enabled) > 0

(* C8: pause_segment is idempotent: a second pause_segment(id), at the     *)
(* same or a later clock value with nothing in between, leaves the         *)
(* tracker as the first call left it.                                      *)
C8_PauseIdempotent ==
    \A id \in SegmentIds :
       LET once == pause_segment(tracker, id, now, idle_timer_enabled)
       IN \A t \in Later, idle \in BOOLEAN :
             pause_segment(once, id, t, idle) = once

\* a running session with time to credit, which the first pause_segment
\* pauses, and a later clock value for the second call
C8_Witness ==
    \E id \in Sessions :
       /\ Running(id) /\ Gap(id) > 0 /\ now < MaxTime
       /\ pause_segment(tracker, id, now, idle_timer_enabled).sessions[id].is_paused
       /\ pause_segment(tracker, id, now, idle_timer_enabled).sessions[id].active_time
             > Session(id).active_time

(* C9: for a running session with no operation in between,                 *)
(* get_editing_time is non-decreasing as the clock advances.               *)
C9_LiveReadingMonotone ==
    \A id \in Sessions :
       Running(id) =>
          \A t1 \in Later, t2 \in Later :
             t1 <= t2 =>
                get_editing_time(tracker, id, t2, idle_timer_enabled)
                   >= get_editing_time(tracker, id, t1, idle_timer_enabled)

\* the snapshot without key `key` in the record of segment id
DropKey(snapshot, id, key) ==
    [snapshot EXCEPT !.sessions[str(id)] =
        [k \in DOMAIN @ \ {key} |-> @[k]]]

IsError(result) == "error" \in DOMAIN result

(* C10: deserializing a snapshot in which a session record lacks           *)
(* start_time, pause_time or last_activity is rejected with an error.      *)
C10_MissingTimestampRejected ==
    \A id \in Sessions, key \in {"start_time", "pause_time", "last_activity"} :
       IsError(from_dict(DropKey(to_dict(tracker), id, key), tracker.timer_mode, now))

(* C11: in continuous mode, a running session paused by pause_segment at   *)
(* p and resumed by resume_segment at r >= p has total_paused_time         *)
(* increased by exactly r - p, and get_editing_time read at r equals       *)
(* active_time as it was right after the pause.                            *)
C11_PausedIntervalExcluded ==
    \A id \in Sessions :
       (tracker.timer_mode = "current" /\ Running(id)) =>
          \A r \in Later :
             LET paused  == pause_segment(tracker, id, now, idle_timer_enabled)
                 resumed == resume_segment(paused, id, r)
             IN /\ resumed.sessions[id].total_paused_time
                      = Session(id).total_paused_time + (r - now)
                /\ ~resumed.sessions[id].is_paused
                /\ get_editing_time(resumed, id, r, idle_timer_enabled)
                      = paused.sessions[id].active_time

\* a running continuous-mode session with time to credit at the pause and
\* room for a paused interval, which the resume adds to total_paused_time
C11_Witness ==
    \E id \in Sessions :
       /\ tracker.timer_mode = "current" /\ Running(id)
       /\ Gap(id) > 0 /\ now < MaxTime
       /\ resume_segment(pause_segment(tracker, id, now, idle_timer_enabled),
                         id, MaxTime).sessions[id].total_paused_time
             = Session(id).total_paused_time + (MaxTime - now)

(* C12: in manual mode, for a session created at c and first started with  *)
(* start_pet_timer at s >= c, the first update_activity at s + d (d within *)
(* the idle threshold) leaves active_time = d.                             *)
C12_ManualStartCreditsNoWait ==
    \A id \in Sessions :
       (tracker.timer_mode = "pet" /\ id \notin pet_started) =>
          \A s \in Later, idle \in BOOLEAN :
             \A u \in s..MaxTime :
                (u - s <= IDLE_THRESHOLD) =>
                   update_activity(start_pet_timer(tracker, id, s), id, u, idle)
                      .sessions[id].active_time = u - s

\* a manual-mode session never started, some time after its creation,
\* whose timer started now credits exactly the time from now on
C12_Witness ==
    \E id \in Sessions :
       /\ tracker.timer_mode = "pet" /\ id \notin pet_started
       /\ now > Session(id).start_time /\ now < MaxTime
       /\ update_activity(start_pet_timer(tracker, id, now), id, MaxTime,
                          idle_timer_enabled).sessions[id].active_time
             = MaxTime - now

(* C13: in manual mode, resume_segment on a session whose is_pet_paused    *)
(* is true changes nothing.                                                *)
C13_ResumeGated ==
    \A id \in Sessions :
       (tracker.timer_mode = "pet" /\ Session(id).is_pet_paused) =>
          \A t \in Later : resume_segment(tracker, id, t) = tracker

\* a manual-paused session with a pause_time in the past: an ungated
\* resume would have counted the pause and restarted it
C13_Witness ==
    \E id \in Sessions :
       /\ tracker.timer_mode = "pet"
       /\ Session(id).is_pet_paused /\ Session(id).is_paused
       /\ Session(id).pause_time # None /\ now > Session(id).pause_time
       /\ resume_segment(tracker, id, now).sessions[id].is_paused

(* C14: for a segment id with no session, pause_segment, resume_segment,   *)
(* update_activity, check_idle_time, pause_pet_timer and start_pet_timer   *)
(* leave the tracker unchanged; get_editing_time returns 0 and             *)
(* is_pet_timer_paused false; only start_segment creates a session.        *)
C14_UnknownIdNoOp ==
    \A id \in SegmentIds \ Sessions :
       /\ \A t \in Later, idle \in BOOLEAN :
             /\ pause_segment(tracker, id, t, idle) = tracker
             /\ resume_segment(tracker, id, t) = tracker
             /\ update_activity(tracker, id, t, idle) = tracker
             /\ check_idle_time(tracker, id, t, idle) = tracker
             /\ pause_pet_timer(tracker, id, t, idle) = tracker
             /\ start_pet_timer(tracker, id, t) = tracker
             /\ get_editing_time(tracker, id, t, idle) = 0
       /\ ~is_pet_timer_paused(tracker, id)
       /\ DOMAIN start_segment(tracker, id, now).sessions = Sessions \cup {id}

\* a manual-mode tracker that has a session for one id and none for
\* another, which start_segment creates
C14_Witness ==
    /\ tracker.timer_mode = "pet"
    /\ Sessions # {}
    /\ \E id \in SegmentIds \ Sessions :
          /\ update_activity(tracker, id, now, idle_timer_enabled) = tracker
          /\ HasSession(start_segment(tracker, id, now), id)

(* C15: in manual mode, right after start_segment(id) the session is both  *)
(* is_paused and is_pet_paused, whatever its state before the call; when   *)
(* the call forces a not-manual-paused session into manual pause it sets   *)
(* pause_time to the current time.                                         *)
C15_ManualStartAlwaysPaused ==
    tracker.timer_mode = "pet" =>
       \A id \in SegmentIds :
          LET after == start_segment(tracker, id, now).sessions[id]
          IN /\ after.is_paused
             /\ after.is_pet_paused
             /\ (id \in Sessions /\ ~Session(id).is_pet_paused)
                   => after.pause_time = now

\* a manual-mode session that is running, some time after its last
\* activity, which start_segment puts into manual pause at now
C15_Witness ==
    \E id \in Sessions :
       /\ tracker.timer_mode = "pet"
       /\ Running(id) /\ ~Session(id).is_pet_paused /\ Gap(id) > 0
       /\ start_segment(tracker, id, now).sessions[id].is_pet_paused
       /\ start_segment(tracker, id, now).sessions[id].pause_time = now

\* active_time and idle_time stay as they are while the session is paused
PausedCountersKept ==
    \A id \in Sessions :
       Session(id).is_paused =>
          /\ id \in DOMAIN tracker'.sessions
          /\ tracker'.sessions[id].active_time = Session(id).active_time
          /\ tracker'.sessions[id].idle_time = Session(id).idle_time

\* the call that leads from session `before` to session `after` increases
\* at most one of active_time and idle_time
AtMostOneBucket(before, after) ==
    ~(after.active_time > before.active_time /\ after.idle_time > before.idle_time)

(* C16: while is_paused is true no operation changes active_time or        *)
(* idle_time, and one update_activity or pause_segment call on a running   *)
(* session increases at most one of active_time and idle_time.             *)
C16_OneBucketAtATime ==
    /\ [][PausedCountersKept]_vars
    /\ [](\A id \in Sessions :
            Running(id) =>
               /\ AtMostOneBucket(Session(id),
                     update_activity(tracker, id, now, idle_timer_enabled).sessions[id])
               /\ AtMostOneBucket(Session(id),
                     pause_segment(tracker, id, now, idle_timer_enabled).sessions[id]))

\* a running session beyond the idle threshold whose update_activity
\* counts idle time and no active time, and a paused session beside it
C16_Witness ==
    /\ \E id \in Sessions :
          /\ Running(id) /\ idle_timer_enabled /\ Gap(id) > IDLE_THRESHOLD
          /\ update_activity(tracker, id, now, idle_timer_enabled).sessions[id].idle_time
                > Session(id).idle_time
    /\ \E id \in Sessions :
          Session(id).is_paused /\ Session(id).active_time > 0

(* C17: start_segment(id) for an id with no session creates a session      *)
(* with start_time = last_activity = now, pause_time absent and all three  *)
(* counters 0; running in continuous mode, is_paused and is_pet_paused in  *)
(* manual mode.                                                            *)
C17_NewSessionFields ==
    \A id \in SegmentIds \ Sessions :
       LET created == start_segment(tracker, id, now).sessions[id]
           manual  == (tracker.timer_mode = "pet")
       IN /\ created.start_time = now
          /\ created.last_activity = now
          /\ created.pause_time = None
          /\ created.active_time = 0
          /\ created.idle_time = 0
          /\ created.total_paused_time = 0
          /\ created.is_paused = manual
          /\ created.is_pet_paused = manual

\* a manual-mode tracker some time after the start, with an id without a
\* session, whose new session starts paused at now
C17_Witness ==
    /\ tracker.timer_mode = "pet" /\ now > 0
    /\ \E id \in SegmentIds \ Sessions :
          /\ start_segment(tracker, id, now).sessions[id].is_paused
          /\ start_segment(tracker, id, now).sessions[id].start_time = now

(* C18: the set of segment ids only grows: no operation removes a          *)
(* session, start_segment(id) adds exactly the key id, and to_dict         *)
(* followed by from_dict yields exactly the same set of integer ids.       *)
C18_SessionIdsOnlyGrow ==
    /\ [][Sessions \subseteq DOMAIN tracker'.sessions]_vars
    /\ [](\A id \in SegmentIds :
            DOMAIN start_segment(tracker, id, now).sessions = Sessions \cup {id})
    /\ [](DOMAIN from_dict(to_dict(tracker), tracker.timer_mode, now).sessions
             = Sessions)

\* a tracker with a paused session for the two-digit id and no session for
\* the other id, which start_segment adds
C18_Witness ==
    \E id \in Sessions :
       /\ Len(str(id)) > 1
       /\ Session(id).is_paused
       /\ id \in DOMAIN from_dict(to_dict(tracker), tracker.timer_mode, now).sessions
       /\ \E other \in SegmentIds \ Sessions :
             DOMAIN start_segment(tracker, other, now).sessions = {id, other}

\* the tracker with is_pet_paused inverted in the sessions of `flipped`
FlipPetPaused(trk, flipped) ==
    [trk EXCEPT !.sessions =
        [id \in DOMAIN trk.sessions |->
           IF id \in flipped
           THEN [trk.sessions[id] EXCEPT !.is_pet_paused = ~@]
           ELSE trk.sessions[id]]]

\* the tracker without its is_pet_paused flags
ErasePetPaused(trk) ==
    [trk EXCEPT !.sessions =
        [id \in DOMAIN trk.sessions |->
           [trk.sessions[id] EXCEPT !.is_pet_paused = FALSE]]]

\* what one call, at clock value t, makes of the tracker
CallResults(trk, id, t, idle) ==
    <<start_segment(trk, id, t),
      pause_segment(trk, id, t, idle),
      resume_segment(trk, id, t),
      update_activity(trk, id, t, idle),
      check_idle_time(trk, id, t, idle),
      pause_pet_timer(trk, id, t, idle),
      start_pet_timer(trk, id, t)>>

(* C19: in continuous mode is_pet_paused is inert: two trackers in         *)
(* continuous mode that differ only in is_pet_paused are, after the same   *)
(* call at the same clock value, again equal in every field but            *)
(* is_pet_paused, and return the same get_editing_time.                    *)
C19_PetFlagInert ==
    tracker.timer_mode = "current" =>
       \A flipped \in SUBSET Sessions, id \in SegmentIds :
          LET other == FlipPetPaused(tracker, flipped)
              mine   == CallResults(tracker, id, now, idle_timer_enabled)
              theirs == CallResults(other, id, now, idle_timer_enabled)
          IN /\ \A i \in DOMAIN mine :
                   ErasePetPaused(theirs[i]) = ErasePetPaused(mine[i])
             /\ get_editing_time(other, id, now, idle_timer_enabled)
                   = get_editing_time(tracker, id, now, idle_timer_enabled)

\* a continuous-mode session paused for a while: resume_segment resumes
\* it, and counts the pause, with is_pet_paused set as well
C19_Witness ==
    \E id \in Sessions :
       /\ tracker.timer_mode = "current"
       /\ Session(id).is_paused /\ ~Session(id).is_pet_paused
       /\ Session(id).pause_time # None /\ now > Session(id).pause_time
       /\ ~resume_segment(FlipPetPaused(tracker, {id}), id, now).sessions[id].is_paused

(* C20: in continuous mode pause_pet_timer(id) and start_pet_timer(id)     *)
(* leave every field of every session unchanged.                           *)
C20_PetTimerCallsInertInContinuous ==
    tracker.timer_mode = "current" =>
       \A id \in SegmentIds, t \in Later, idle \in BOOLEAN :
          /\ pause_pet_timer(tracker, id, t, idle) = tracker
          /\ start_pet_timer(tracker, id, t) = tracker

\* continuous mode with a running session that has time to credit and a
\* paused session whose pause started earlier: pause_segment and
\* resume_segment would change them, the manual-timer calls do not
C20_Witness ==
    /\ tracker.timer_mode = "current"
    /\ \E id \in Sessions :
          /\ Running(id) /\ Gap(id) > 0
          /\ pause_segment(tracker, id, now, idle_timer_enabled) # tracker
          /\ pause_pet_timer(tracker, id, now, idle_timer_enabled) = tracker
    /\ \E id \in Sessions :
          /\ Session(id).is_paused /\ Session(id).pause_time # None
          /\ resume_segment(tracker, id, now) # tracker
          /\ start_pet_timer(tracker, id, now) = tracker

\* the tracker a snapshot of trk gives when it is loaded at clock value t
\* with the stored mode
Restored(trk, t) == from_dict(to_dict(trk), trk.timer_mode, t)

(* C21: a snapshot taken now, while session id is running, and restored    *)
(* at a later clock value r: the call that follows at r (pause_segment,    *)
(* pause_pet_timer, update_activity, get_editing_time) credits to          *)
(* active_time no more than the same call at the time of the snapshot      *)
(* would have, with the idle timer enabled or disabled: the interval       *)
(* between snapshot and restoration is not counted as editing.             *)
C21_OfflineIntervalNotCredited ==
    \A id \in Sessions :
       Running(id) =>
          \A r \in Later, idle \in BOOLEAN :
             LET restored == Restored(tracker, r) IN
             /\ pause_segment(restored, id, r, idle).sessions[id].active_time
                   <= pause_segment(tracker, id, now, idle).sessions[id].active_time
             /\ pause_pet_timer(restored, id, r, idle).sessions[id].active_time
                   <= pause_pet_timer(tracker, id, now, idle).sessions[id].active_time
             /\ update_activity(restored, id, r, idle).sessions[id].active_time
                   <= update_activity(tracker, id, now, idle).sessions[id].active_time
             /\ get_editing_time(restored, id, r, idle)
                   <= get_editing_time(tracker, id, now, idle)

\* the clock value at which a paused session became paused: the pause
\* pause_segment or a re-entering start_segment stamped, or the creation of
\* a session that start_segment created paused
PausedSince(id) ==
    IF Session(id).pause_time # None
    THEN Session(id).pause_time
    ELSE Session(id).start_time

\* session id is paused
Paused(id) == id \in Sessions /\ Session(id).is_paused

(* C22: total_paused_time of a running session is the summed length of     *)
(* its earlier paused intervals, in both modes.  Step by step: a step that *)
(* makes a session paused records the clock value (PausedSince), a paused  *)
(* session keeps that record, a step that makes a paused session running   *)
(* adds now - PausedSince to total_paused_time, and no other step changes  *)
(* total_paused_time; this includes the pause a manual-mode session is     *)
(* created with and the pause start_segment imposes on re-entering.        *)
C22_TotalPausedIsSumOfPauses ==
    [][\A id \in Sessions' :
          /\ (~Paused(id) /\ Paused(id)') => PausedSince(id)' = now'
          /\ (Paused(id) /\ Paused(id)') => PausedSince(id)' = PausedSince(id)
          /\ (Paused(id) /\ ~Paused(id)') =>
                Session(id)'.total_paused_time
                   = Session(id).total_paused_time + (now - PausedSince(id))
          /\ (id \in Sessions /\ ~(Paused(id) /\ ~Paused(id)')) =>
                Session(id)'.total_paused_time = Session(id).total_paused_time
          /\ id \notin Sessions => Session(id)'.total_paused_time = 0
      ]_vars

(* C23: pause_segment on a running session, at any clock value from now    *)
(* on and with the idle timer enabled or disabled: the gap                 *)
(* g = now - last_activity is added to active_time when g <= the           *)
(* threshold or the idle timer is disabled; with g > threshold and the     *)
(* idle timer enabled active_time and idle_time are unchanged; in both     *)
(* cases pause_time = last_activity = now and is_paused = true.            *)
C23_PauseCreditsGap ==
    \A id \in Sessions :
       Running(id) =>
          \A t \in Later, idle \in BOOLEAN :
             LET before == Session(id)
                 after  == pause_segment(tracker, id, t, idle).sessions[id]
                 g      == t - before.last_activity
             IN /\ (g <= IDLE_THRESHOLD \/ ~idle) =>
                      after.active_time = before.active_time + g
                /\ (g > IDLE_THRESHOLD /\ idle) =>
                      /\ after.active_time = before.active_time
                      /\ after.idle_time = before.idle_time
                /\ after.pause_time = t
                /\ after.last_activity = t
                /\ after.is_paused

\* two running sessions with the idle timer enabled, one with a gap beyond
\* the threshold that pause_segment drops, one with a gap of exactly the
\* threshold that pause_segment credits
C23_Witness ==
    /\ idle_timer_enabled
    /\ \E id \in Sessions :
          /\ Running(id) /\ Gap(id) > IDLE_THRESHOLD
          /\ pause_segment(tracker, id, now, TRUE).sessions[id].active_time
                = Session(id).active_time
    /\ \E id \in Sessions :
          /\ Running(id) /\ Gap(id) = IDLE_THRESHOLD
          /\ pause_segment(tracker, id, now, TRUE).sessions[id].active_time
                = Session(id).active_time + IDLE_THRESHOLD

(* C24: the live reading agrees with what gets committed: for a running    *)
(* session and any clock value from now on, with the idle timer enabled or *)
(* disabled, get_editing_time(id) equals active_time right after           *)
(* update_activity(id) at the same clock value and active_time right after *)
(* pause_segment(id) at the same clock value.                              *)
C24_LiveReadingIsCommitted ==
    \A id \in Sessions :
       Running(id) =>
          \A t \in Later, idle \in BOOLEAN :
             LET reading == get_editing_time(tracker, id, t, idle) IN
             /\ reading = update_activity(tracker, id, t, idle).sessions[id].active_time
             /\ reading = pause_segment(tracker, id, t, idle).sessions[id].active_time

\* a running session whose gap is beyond the threshold: with the idle
\* timer disabled reading and commits include the gap, with it enabled
\* all three leave it out
C24_Witness ==
    \E id \in Sessions :
       /\ Running(id) /\ Gap(id) > IDLE_THRESHOLD /\ ~idle_timer_enabled
       /\ get_editing_time(tracker, id, now, FALSE) = Session(id).active_time + Gap(id)
       /\ update_activity(tracker, id, now, FALSE).sessions[id].active_time
             = Session(id).active_time + Gap(id)
       /\ get_editing_time(tracker, id, now, TRUE) = Session(id).active_time
       /\ pause_segment(tracker, id, now, TRUE).sessions[id].active_time
             = Session(id).active_time

(* C25: in continuous mode with the idle timer disabled and a clock that   *)
(* never goes back, time is conserved for every session after any          *)
(* sequence of start_segment, pause_segment, resume_segment and            *)
(* update_activity: get_editing_time(id) + total_paused_time + (now -      *)
(* pause_time if the session is paused, else 0) = now - start_time.        *)
C25_TimeConserved ==
    (tracker.timer_mode = "current" /\ ~idle_timer_enabled) =>
       \A id \in Sessions :
          get_editing_time(tracker, id, now, idle_timer_enabled)
             + Session(id).total_paused_time
             + (IF Session(id).is_paused THEN now - Session(id).pause_time ELSE 0)
          = now - Session(id).start_time

\* with the idle timer disabled: a session that worked, was paused for a
\* while, was resumed and has an uncommitted gap, next to a paused session
C25_Witness ==
    /\ tracker.timer_mode = "current" /\ ~idle_timer_enabled
    /\ \E id \in Sessions :
          /\ Running(id) /\ Gap(id) > 0
          /\ Session(id).active_time > 0
          /\ Session(id).total_paused_time > 0
    /\ \E id \in Sessions :
          Session(id).is_paused /\ now > Session(id).pause_time

(* C26: with check_idle_time among the operations a session's idle_time    *)
(* never exceeds the time elapsed since its start_time: it does not in the *)
(* current state, and it does not after a check_idle_time that records an  *)
(* idle gap and an update_activity over the same gap, at any clock value   *)
(* up to Horizon.                                                          *)
C26_IdleTimeWithinElapsed ==
    \A id \in Sessions :
       /\ Session(id).idle_time <= now - Session(id).start_time
       /\ (Running(id) /\ idle_timer_enabled) =>
             \A t \in now..Horizon :
                LET checked == check_idle_time(tracker, id, t, TRUE)
                    updated == update_activity(checked, id, t, TRUE)
                IN updated.sessions[id].idle_time <= t - Session(id).start_time

(* C27: in a tracker that starts empty and whose mode is fixed to manual,  *)
(* every session of every reachable state has is_pet_paused => is_paused:  *)
(* a session that is_pet_timer_paused reports as manual-paused is not      *)
(* accruing time.                                                          *)
C27_ManualPausedIsPaused ==
    tracker.timer_mode = "pet" =>
       \A id \in SegmentIds :
          is_pet_timer_paused(tracker, id) => Session(id).is_paused

\* manual mode: a session that was started with start_pet_timer and paused
\* again with the manual timer, next to a session that is running
C27_Witness ==
    /\ tracker.timer_mode = "pet"
    /\ \E id \in pet_started :
          /\ is_pet_timer_paused(tracker, id)
          /\ Session(id).is_paused /\ Session(id).pause_time # None
    /\ \E id \in Sessions : Running(id) /\ ~is_pet_timer_paused(tracker, id)

(* C28: in every reachable state a running session (is_paused false) has   *)
(* no pause_time: every transition that makes a session running clears it. *)
C28_RunningHasNoPauseTime ==
    \A id \in Sessions :
       Running(id) => Session(id).pause_time = None

\* a session that was paused for a while and is running again
C28_Witness ==
    \E id \in Sessions :
       /\ Running(id)
       /\ Session(id).total_paused_time > 0
       /\ Session(id).pause_time = None

(* C29: in manual mode, at any clock value t from now on:                  *)
(* start_pet_timer(id) on a manual-paused session makes it running         *)
(* (is_pet_paused = false, is_paused = false, no pause_time,               *)
(* last_activity = t); pause_pet_timer(id) on a running session makes it   *)
(* manual-paused (is_pet_paused = true, is_paused = true, pause_time = t)  *)
(* and credits the gap since last_activity exactly as pause_segment does.  *)
C29_ManualTimerTransitions ==
    tracker.timer_mode = "pet" =>
       \A id \in Sessions, t \in Later, idle \in BOOLEAN :
          /\ is_pet_timer_paused(tracker, id) =>
                LET after == start_pet_timer(tracker, id, t).sessions[id] IN
                /\ ~after.is_pet_paused /\ ~after.is_paused
                /\ after.pause_time = None
                /\ after.last_activity = t
          /\ Running(id) =>
                LET after == pause_pet_timer(tracker, id, t, idle).sessions[id] IN
                /\ after.is_pet_paused /\ after.is_paused
                /\ after.pause_time = t
                /\ after = [pause_segment(tracker, id, t, idle).sessions[id]
                               EXCEPT !.is_pet_paused = TRUE]

\* manual mode: a session paused by the manual timer a while ago, which
\* start_pet_timer makes running, next to a running session with a gap to
\* credit, which pause_pet_timer makes manual-paused
C29_Witness ==
    /\ tracker.timer_mode = "pet"
    /\ \E id \in pet_started :
          /\ is_pet_timer_paused(tracker, id)
          /\ Session(id).pause_time # None /\ now > Session(id).pause_time
          /\ ~start_pet_timer(tracker, id, now).sessions[id].is_paused
    /\ \E id \in Sessions :
          /\ Running(id) /\ Gap(id) > 0
          /\ pause_pet_timer(tracker, id, now, idle_timer_enabled).sessions[id].is_pet_paused

(* C30: while the idle timer is disabled no step changes the idle_time of  *)
(* any session, and update_activity on a running session, at any clock     *)
(* value from now on, adds the whole gap since last_activity to            *)
(* active_time, however long the gap is.                                   *)
C30_IdleTimerDisabled ==
    /\ [][~idle_timer_enabled =>
             \A id \in Sessions :
                Session(id)'.idle_time = Session(id).idle_time]_vars
    /\ [](~idle_timer_enabled =>
             \A id \in Sessions :
                Running(id) =>
                   \A t \in Later :
                      LET after == update_activity(tracker, id, t,
                                                   idle_timer_enabled).sessions[id]
                      IN /\ after.active_time
                               = Session(id).active_time
                                    + (t - Session(id).last_activity)
                         /\ after.idle_time = Session(id).idle_time)

\* the idle timer is disabled and a running session has a gap beyond the
\* threshold: update_activity credits all of it and check_idle_time, which
\* would record idle time with the timer enabled, does nothing
C30_Witness ==
    /\ ~idle_timer_enabled
    /\ \E id \in Sessions :
          /\ Running(id) /\ Gap(id) > IDLE_THRESHOLD
          /\ update_activity(tracker, id, now, FALSE).sessions[id].active_time
                = Session(id).active_time + Gap(id)
          /\ check_idle_time(tracker, id, now, FALSE) = tracker
          /\ check_idle_time(tracker, id, now, TRUE) # tracker

(* C31: in continuous mode start_segment(id) on a session that exists      *)
(* already, at any clock value from now on, changes nothing: start_time,   *)
(* last_activity, active_time, idle_time, total_paused_time, pause_time    *)
(* and is_paused stay as they are (no counter is reset, no paused session  *)
(* resumed), and so does the rest of the tracker.                          *)
C31_ContinuousRestartNoOp ==
    tracker.timer_mode = "current" =>
       \A id \in Sessions, t \in Later :
          start_segment(tracker, id, t) = tracker

\* continuous mode: a paused session with time worked and time paused, at
\* a clock value later than its start
C31_Witness ==
    /\ tracker.timer_mode = "current"
    /\ \E id \in Sessions :
          /\ Session(id).is_paused
          /\ Session(id).active_time > 0
          /\ Session(id).total_paused_time > 0
          /\ now > Session(id).start_time
          /\ start_segment(tracker, id, now).sessions[id] = Session(id)

(* C32: in manual mode start_segment(id) on an existing running session,   *)
(* at any clock value t from now on, preserves the time worked so far: the *)
(* gap between last_activity and t is credited to active_time as           *)
(* pause_segment would credit it before the session is forced into manual  *)
(* pause, so get_editing_time(id) right after the call equals              *)
(* get_editing_time(id) right before it.                                   *)
C32_ReentryKeepsTimeWorked ==
    tracker.timer_mode = "pet" =>
       \A id \in Sessions :
          Running(id) =>
             \A t \in Later, idle \in BOOLEAN :
                LET after == start_segment(tracker, id, t) IN
                /\ after.sessions[id].is_paused
                /\ after.sessions[id].active_time
                      = pause_segment(tracker, id, t, idle).sessions[id].active_time
                /\ get_editing_time(after, id, t, idle)
                      = get_editing_time(tracker, id, t, idle)

\* res differs from the tracker at most in the session of id
OnlySessionChanged(res, id) ==
    /\ res.timer_mode = tracker.timer_mode
    /\ DOMAIN res.sessions \ {id} = Sessions \ {id}
    /\ \A other \in Sessions \ {id} : res.sessions[other] = Session(other)

\* the clock values of a call made now or after one more advance of the clock
Soon == {now} \cup {now + d : d \in Steps}

(* C33: every mutating operation on segment id (start_segment,             *)
(* pause_segment, resume_segment, update_activity, check_idle_time,        *)
(* pause_pet_timer, start_pet_timer), called now or after one more advance *)
(* of the clock, with the idle timer enabled or disabled, leaves the       *)
(* sessions of all other segment ids and the tracker's mode unchanged.     *)
C33_OtherSessionsUntouched ==
    \A id \in SegmentIds, t \in Soon :
       /\ OnlySessionChanged(start_segment(tracker, id, t), id)
       /\ OnlySessionChanged(resume_segment(tracker, id, t), id)
       /\ OnlySessionChanged(start_pet_timer(tracker, id, t), id)
       /\ \A idle \in BOOLEAN :
             /\ OnlySessionChanged(pause_segment(tracker, id, t, idle), id)
             /\ OnlySessionChanged(update_activity(tracker, id, t, idle), id)
             /\ OnlySessionChanged(check_idle_time(tracker, id, t, idle), id)
             /\ OnlySessionChanged(pause_pet_timer(tracker, id, t, idle), id)

\* two sessions, one running with a gap to credit, on which
\* update_activity and pause_segment act, the other running as well
C33_Witness ==
    \E id \in Sessions, other \in Sessions :
       /\ id # other
       /\ Running(id) /\ Gap(id) > 0
       /\ Running(other) /\ Gap(other) > 0
       /\ update_activity(tracker, id, now, idle_timer_enabled).sessions[id] # Session(id)
       /\ update_activity(tracker, id, now, idle_timer_enabled).sessions[other]
             = Session(other)
       /\ pause_segment(tracker, id, now, idle_timer_enabled).sessions[other]
             = Session(other)

C35_RoundTripFullState ==
    \A t \in Later :
       LET restored == Restored(tracker, t) IN
       /\ restored.timer_mode = tracker.timer_mode
       /\ DOMAIN restored.sessions = Sessions
       /\ \A id \in Sessions :
             \A field \in DOMAIN Session(id) :
                restored.sessions[id][field] = Session(id)[field]

\* manual mode, both ids with a session, loaded later than the last
\* activity: a manual-paused session with a pause_time and one that has
\* worked
C35_Witness ==
    /\ tracker.timer_mode = "pet"
    /\ Sessions = SegmentIds
    /\ \E id \in Sessions :
          /\ Session(id).is_pet_paused /\ Session(id).pause_time # None
          /\ now > Session(id).last_activity
          /\ Restored(tracker, now).sessions[id].is_pet_paused
    /\ \E id \in Sessions :
          /\ Session(id).active_time > 0
          /\ Restored(tracker, now).sessions[id].active_time = Session(id).active_time

----------------------------------------------------------------------------
\* the sessions that are not paused
RunningSessions == {id \in Sessions : ~Session(id).is_paused}

\* the page has activated a segment in this step
Activated ==
    /\ active_segment' # active_segment
    /\ active_segment' # None

\* C36: in continuous mode, with segments entered and left only through the
\* page's navigation, at most one session is running at any moment.
C36_AtMostOneRunning ==
    session_timer_mode = "current" => Cardinality(RunningSessions) <= 1

\* every segment has a session, the translator has come back after a break,
\* and the only running session is the one the page shows
C36_Witness ==
    /\ session_timer_mode = "current"
    /\ Sessions = Segments
    /\ now = MaxTime
    /\ active_segment = current_segment
    /\ RunningSessions = {current_segment}

====
